---- MODULE Spec2Model ----
(***************************************************************************)
(* State-machine model of seoparser.crawler.SEOCrawler (crawler.py).       *)
(* One crawl session: initialize() (robots, sitemap, base URL), the crawl  *)
(* loop split at its suspension points (queue get / pacing wait / fetch),  *)
(* and the observable effects of a run (GETs issued, progress callbacks,   *)
(* autosave files).                                                        *)
(***************************************************************************)
EXTENDS Integers, Sequences, FiniteSets, TLC

\* ---------------------------------------------------------------- bounds
MaxDepthBound == 1      \* max_depth is -1 or MaxDepthBound
MaxPagesBound == 2      \* max_pages is 1 or MaxPagesBound
MaxRateLimit == 2       \* rate_limit, in clock ticks (1.0 s by default)
MaxAutosave == 2        \* autosave_interval (50 by default)
MaxSitemap == 1         \* number of <loc> entries of a sitemap
MaxLinks == 2           \* number of anchors on one page
MaxFetchTime == 3       \* how long a GET may take
MaxStartTime == 3       \* event-loop clock when crawl() is entered
MaxCalls == 2           \* calls of crawl() on one SEOCrawler object

\* ------------------------------------------------------------------ URLs
\* The URL strings of the modelled site.  base_url is the constructor's
\* argument after rstrip('/').
base_url == "https://A.com"
URLs == {"https://A.com", "https://a.com/p", "https://b.com/p", "/p"}

\* The href attributes a page's anchors may carry: the empty reference and
\* two absolute URLs.
Hrefs == {"", "https://a.com/p", "https://b.com/p"}

NoHost == "None"

\* urlparse(url).hostname: the lower-cased host, None when the URL has none.
hostname(u) ==
    CASE u = "https://A.com"   -> "a.com"
      [] u = "https://a.com/p" -> "a.com"
      [] u = "https://b.com/p" -> "b.com"
      [] OTHER                 -> NoHost

\* urlparse(url).path as a sequence of characters.
url_path(u) ==
    CASE u = "https://A.com" -> << >>
      [] OTHER               -> <<"/", "p">>

\* href.startswith('http')
startswith_http(u) == u # "/p"

\* urljoin(page_url, href): the empty href resolves to the page itself, an
\* absolute href to itself.
urljoin(page, href) == IF href = "" THEN page ELSE href

IsPrefix(r, p) == Len(r) <= Len(p) /\ SubSeq(p, 1, Len(r)) = r

\* Sequences over S of length at most n.
SeqUpTo(S, n) == UNION {[1..k -> S] : k \in 0..n}

\* Disallow rule sets (for user-agent *) a robots.txt body may carry.
RobotsBodies == { {}, {<<"/", "p">>}, {<<"/">>} }

Statuses == {200, 404}

VARIABLES
    max_depth, max_pages, include_subdomains, rate_limit, autosave_interval,
    progress_callback,
    results, errors, visited, to_visit, robot_parser, last_request,
    pc, cur, now, loads, session, calls,
    requests, callbacks, autosaves, pushed, exported,
    wake, peer

config == <<max_depth, max_pages, include_subdomains, rate_limit,
            autosave_interval, progress_callback>>
observed == <<requests, callbacks, autosaves, pushed, exported>>
calling == <<session, calls>>
tasks == <<wake, peer>>
vars == <<max_depth, max_pages, include_subdomains, rate_limit,
          autosave_interval, progress_callback,
          results, errors, visited, to_visit, robot_parser, last_request,
          pc, cur, now, loads, session, calls, requests, callbacks,
          autosaves, pushed, exported, wake, peer>>

\* PageResult(url=..., status=..., error=...); the SEO text fields play no
\* part in the control flow and are left out.
PageResult(u, s, e) == [url |-> u, status |-> s, error |-> e]

\* A fresh RobotFileParser(): nothing parsed yet.
RobotFileParser == [parsed |-> FALSE, disallow |-> {}]

\* RobotFileParser.parse(lines)
parse(rules) == [parsed |-> TRUE, disallow |-> rules]

\* RobotFileParser.can_fetch('*', url): false until something was parsed;
\* otherwise the URL's path (or "/" when empty) must match no Disallow rule.
can_fetch(u) ==
    LET p == IF url_path(u) = << >> THEN <<"/">> ELSE url_path(u)
    IN  /\ robot_parser.parsed
        /\ \A r \in robot_parser.disallow : ~IsPrefix(r, p)

\* How the two auxiliary loads of the initialize() call in progress ended:
\* "ok" (a 200 answer read to the end) or "failed" (another status, or an
\* exception that the except clause swallowed); "none" outside initialize().
NoLoads == [robots |-> "none", sitemap |-> "none"]

\* The locals of a coroutine that has not started running crawl().
NotStarted == [pc |-> "Idle", cur |-> <<base_url, 0>>, loads |-> NoLoads,
               wake |-> 0]

\* The files of the last export(): nothing written yet.
NoExport == [written |-> FALSE, rows |-> << >>, has_log |-> FALSE,
             log |-> << >>]

Init ==
    /\ max_depth \in {-1, MaxDepthBound}
    /\ max_pages \in {1, MaxPagesBound}
    /\ include_subdomains \in BOOLEAN
    /\ rate_limit = MaxRateLimit
    /\ autosave_interval = MaxAutosave
    /\ progress_callback \in BOOLEAN
    /\ results = << >>
    /\ errors = << >>
    /\ visited = {}
    /\ to_visit = << >>
    /\ robot_parser = RobotFileParser
    /\ last_request = 0
    /\ pc = "Idle"
    /\ cur = <<base_url, 0>>
    /\ now \in {0, MaxStartTime}
    /\ loads = NoLoads
    /\ session = "none"
    /\ calls = 0
    /\ exported = NoExport
    /\ requests = << >>
    /\ callbacks = << >>
    /\ autosaves = << >>
    /\ pushed = << >>
    /\ wake = 0
    /\ peer = NotStarted

\* allowed() without the host comparison.
allowed_NoHostCheck(u) == can_fetch(u)

\* SEOCrawler.allowed(url)
allowed(u) ==
    IF /\ ~include_subdomains
       /\ hostname(u) # NoHost
       /\ hostname(u) # hostname(base_url)
    THEN FALSE
    ELSE can_fetch(u)

\* SEOCrawler.extract_links(html, base_url); hrefs are the href attributes of
\* the page's anchors in document order.
extract_links(hrefs, page) ==
    LET joined == [i \in 1..Len(hrefs) |-> urljoin(page, hrefs[i])]
    IN  SelectSeq(joined, LAMBDA h : startswith_http(h) /\ allowed(h))

\* SEOCrawler.parse_page(url, status, html)
parse_page(u, status) == PageResult(u, status, "")

\* crawl() on a fresh object: create the session if there is none and
\* enter initialize().
crawl ==
    /\ pc = "Idle"
    /\ session' = IF session = "none" THEN "open" ELSE session
    /\ calls' = calls + 1
    /\ pc' = "LoadRobots"
    /\ UNCHANGED <<tasks, config, results, errors, visited, to_visit, robot_parser,
                   last_request, cur, now, loads, observed>>

\* crawl() called again after it returned: nothing guards the call; the
\* closed session is kept (it is not None) and initialize() runs again.
crawl_again ==
    /\ pc = "Done"
    /\ calls < MaxCalls
    /\ session' = IF session = "none" THEN "open" ELSE session
    /\ calls' = calls + 1
    /\ pc' = "LoadRobots"
    /\ UNCHANGED <<tasks, config, results, errors, visited, to_visit, robot_parser,
                   last_request, cur, now, loads, observed>>

\* self.robot_parser = RobotFileParser(); self.robot_parser.parse([])
FallbackParser == parse({})

\* load_robots(): a 200 answer is parsed; any other answer and any exception
\* leave a parser that has parsed an empty file.
load_robots ==
    /\ pc = "LoadRobots"
    /\ \E outcome \in {"ok", "status", "raise"} :
         IF outcome = "ok"
         THEN /\ \E body \in RobotsBodies : robot_parser' = parse(body)
              /\ loads' = [loads EXCEPT !.robots = "ok"]
         ELSE /\ robot_parser' = FallbackParser
              /\ loads' = [loads EXCEPT !.robots = "failed"]
    /\ pc' = "LoadSitemap"
    /\ UNCHANGED <<tasks, calling, config, results, errors, visited, to_visit, last_request,
                   cur, now, observed>>

\* Entries put at the head of the queue instead of its tail.
PutAll_Front(q, es) == es \o q

\* to_visit.put(entry) for each entry of es in turn.
PutAll(q, es) == q \o es

\* load_sitemap(): the <loc> elements of a 200 answer are queued at depth 0
\* in document order.  A non-200 answer, a failed request or a body that is
\* not XML queues nothing; a <loc> without text raises in loc.text.strip()
\* after the entries before it were queued.  Every exception is swallowed.
\* A body is given by its leading <loc> elements with text (locs) and by
\* whether a <loc> without text follows them (textless).
load_sitemap ==
    /\ pc = "LoadSitemap"
    /\ \E outcome \in {"ok", "status", "raise", "malformed"} :
         IF outcome = "ok"
         THEN \E locs \in SeqUpTo(URLs, MaxSitemap), textless \in BOOLEAN :
                LET entries == [i \in 1..Len(locs) |-> <<locs[i], 0>>]
                IN  /\ to_visit' = PutAll(to_visit, entries)
                    /\ pushed' = pushed \o entries
                    /\ loads' = [loads EXCEPT
                                   !.sitemap = IF textless THEN "failed" ELSE "ok"]
         ELSE /\ to_visit' = to_visit
              /\ pushed' = pushed
              /\ loads' = [loads EXCEPT !.sitemap = "failed"]
    /\ pc' = "PutBase"
    /\ UNCHANGED <<tasks, calling, config, results, errors, visited, robot_parser,
                   last_request, cur, now, requests, callbacks, autosaves,
                   exported>>

\* initialize(), last line: the base URL is queued at depth 0 and
\* initialize() returns.
initialize ==
    /\ pc = "PutBase"
    /\ to_visit' = PutAll(to_visit, << <<base_url, 0>> >>)
    /\ pushed' = Append(pushed, <<base_url, 0>>)
    /\ loads' = NoLoads
    /\ pc' = "Loop"
    /\ UNCHANGED <<tasks, calling, config, results, errors, visited, robot_parser,
                   last_request, cur, now, requests, callbacks, autosaves,
                   exported>>

\* The while condition with <= in place of <.
LoopCond_OffByOne == to_visit # << >> /\ Len(results) <= max_pages

\* The while condition of crawl().
LoopCond == to_visit # << >> /\ Len(results) < max_pages

\* The visited test left out.
AlreadyVisited_Never(u) == FALSE

\* url in self.visited
AlreadyVisited(u) == u \in visited

\* The depth test left out.
TooDeep_Never(d) == FALSE

\* depth > self.max_depth
TooDeep(d) == d > max_depth

\* The allowed() test left out.
NotAllowed_Never(u) == FALSE

\* not self.allowed(url)
NotAllowed(u) == ~allowed(u)

\* The two "continue" tests at the head of the loop body.
SkipEntry(u, d) == AlreadyVisited(u) \/ TooDeep(d) \/ NotAllowed(u)

\* One pass over the head of the loop: take an entry, drop it (visited, too
\* deep, not allowed) or mark it visited and go on to the pacing wait.
\* The mark left out.
MarkVisited_Skip(v, u) == v

\* self.visited.add(url)
MarkVisited(v, u) == v \cup {u}

\* One pass from the while condition to the first statement after the mark:
\* get, the two tests and visited.add() run without a suspension (the get of
\* a non-empty queue returns at once).
Dequeue ==
    /\ pc = "Loop"
    /\ LoopCond
    /\ LET u == Head(to_visit)[1]
           d == Head(to_visit)[2]
       IN  /\ cur' = <<u, d>>
           /\ to_visit' = Tail(to_visit)
           /\ IF SkipEntry(u, d)
              THEN pc' = "Loop" /\ visited' = visited
              ELSE pc' = "Pace" /\ visited' = MarkVisited(visited, u)
    /\ UNCHANGED <<tasks, calling, config, results, errors, robot_parser, last_request, now,
                   loads, observed>>

\* wait_for with the subtraction the wrong way round.
WaitFor_Flipped == (now - last_request) - rate_limit

\* wait_for of rate_limit_wait()
WaitFor == rate_limit - (now - last_request)

\* rate_limit_wait() followed by the start of the GET: sleep for wait_for
\* when it is positive, then record the clock as last_request.
rate_limit_wait ==
    /\ pc = "Pace"
    /\ now' = now + (IF WaitFor > 0 THEN WaitFor ELSE 0)
    /\ last_request' = now'
    /\ requests' = Append(requests, [url |-> cur[1], depth |-> cur[2],
                                     start |-> now', outcome |-> "pending"])
    /\ pc' = "Fetch"
    /\ UNCHANGED <<tasks, calling, config, results, errors, visited, to_visit, robot_parser,
                   cur, loads, callbacks, autosaves, pushed, exported>>

\* The GET of this coroutine, the pending one for its URL, is over.
Completed(outcome) ==
    [i \in DOMAIN requests |->
        IF requests[i].url = cur[1] /\ requests[i].outcome = "pending"
        THEN [requests[i] EXCEPT !.outcome = outcome]
        ELSE requests[i]]

\* rate_limit_wait() up to its suspension: with wait_for > 0 the coroutine
\* goes to sleep until now + wait_for; otherwise it runs on to the GET.
rate_limit_wait_begin ==
    /\ pc = "Pace"
    /\ IF WaitFor > 0
       THEN /\ wake' = now + WaitFor
            /\ pc' = "Sleep"
            /\ UNCHANGED <<last_request, requests>>
       ELSE /\ last_request' = now
            /\ requests' = Append(requests, [url |-> cur[1], depth |-> cur[2],
                                             start |-> now, outcome |-> "pending"])
            /\ pc' = "Fetch"
            /\ wake' = wake
    /\ UNCHANGED <<peer, calling, config, results, errors, visited, to_visit,
                   robot_parser, cur, now, loads, callbacks, autosaves, pushed,
                   exported>>

\* The sleep is over (the clock has reached the wake-up time, or passed it
\* while the other coroutine ran): last_request is set and the GET starts.
rate_limit_wait_end ==
    /\ pc = "Sleep"
    /\ now' = IF now > wake THEN now ELSE wake
    /\ last_request' = now'
    /\ requests' = Append(requests, [url |-> cur[1], depth |-> cur[2],
                                     start |-> now', outcome |-> "pending"])
    /\ wake' = 0
    /\ pc' = "Fetch"
    /\ UNCHANGED <<peer, calling, config, results, errors, visited, to_visit,
                   robot_parser, cur, loads, callbacks, autosaves, pushed,
                   exported>>

\* The event loop hands control to the other coroutine.  The running one
\* is suspended in the sitemap GET, in asyncio.sleep() or in the page GET, or
\* it is over; get() on a non-empty queue and put() on an unbounded one
\* return without suspending.
switch ==
    /\ pc \in {"LoadSitemap", "Sleep", "Fetch", "Done", "Aborted"}
    /\ peer.pc \notin {"Done", "Aborted"}
    /\ pc' = peer.pc
    /\ cur' = peer.cur
    /\ loads' = peer.loads
    /\ wake' = peer.wake
    /\ peer' = [pc |-> pc, cur |-> cur, loads |-> loads, wake |-> wake]
    /\ UNCHANGED <<calling, config, results, errors, visited, to_visit,
                   robot_parser, last_request, now, observed>>

\* The GET raises (a transport failure, or the session is closed): except
\* branch of crawl().
FetchRaise ==
    /\ pc = "Fetch"
    /\ \E d \in {0, MaxFetchTime} : now' = now + d
    /\ errors' = Append(errors, PageResult(cur[1], 0, "exc"))
    /\ requests' = Completed("raise")
    /\ pc' = "Loop"
    /\ UNCHANGED <<tasks, calling, config, results, visited, to_visit, robot_parser,
                   last_request, cur, loads, callbacks, autosaves, pushed,
                   exported>>

\* The expansion test without the status.
ShouldExpand_AnyStatus(status, d) == d < max_depth

\* if status == 200 and depth < self.max_depth
ShouldExpand(status, d) == status = 200 /\ d < max_depth

\* The link filter that lets every link through.
Unvisited_Always(l) == TRUE

\* if link not in self.visited
Unvisited(l) == l \notin visited

\* if len(self.results) % self.autosave_interval == 0
AutosaveDue(n) == n % autosave_interval = 0

\* The GET answers (the session is open): the rest of the loop body.
FetchResponse ==
    /\ pc = "Fetch"
    /\ session = "open"
    /\ \E d \in {0, MaxFetchTime} : now' = now + d
    /\ \E status \in Statuses, hrefs \in SeqUpTo(Hrefs, MaxLinks) :
         LET u == cur[1]
             depth == cur[2]
             page == parse_page(u, status)
             links == IF ShouldExpand(status, depth)
                      THEN SelectSeq(extract_links(hrefs, u),
                                     Unvisited)
                      ELSE << >>
             entries == [i \in 1..Len(links) |-> <<links[i], depth + 1>>]
         IN  /\ errors' = IF status # 200 THEN Append(errors, page) ELSE errors
             /\ results' = Append(results, page)
             /\ callbacks' = IF progress_callback
                             THEN Append(callbacks, <<Len(results'), max_pages>>)
                             ELSE callbacks
             /\ autosaves' = IF AutosaveDue(Len(results'))
                             THEN Append(autosaves, [after |-> Len(requests),
                                                     rows |-> Len(results')])
                             ELSE autosaves
             /\ to_visit' = PutAll(to_visit, entries)
             /\ pushed' = pushed \o entries
    /\ requests' = Completed("response")
    /\ pc' = "Loop"
    /\ UNCHANGED <<tasks, calling, config, visited, robot_parser, last_request, cur, loads,
                   exported>>

\* The GET answers and a later statement of the loop body raises: the
\* progress callback (line 122), autosave() while writing its files (line
\* 124) or extract_links() on an href that urljoin() rejects (line 126).
\* None of them is inside a try block: the exception leaves crawl(), the
\* loop is abandoned and the session is not closed.  The record was
\* appended before (line 120); extract_links() raises before any put.
PageProcessingRaises ==
    /\ pc = "Fetch"
    /\ session = "open"
    /\ \E d \in {0, MaxFetchTime} : now' = now + d
    /\ \E status \in Statuses, step \in {"progress", "autosave", "links"} :
         LET page == parse_page(cur[1], status)
             called == IF progress_callback
                       THEN Append(callbacks, <<Len(results) + 1, max_pages>>)
                       ELSE callbacks
         IN  /\ step = "progress" => progress_callback
             /\ step = "autosave" => AutosaveDue(Len(results) + 1)
             /\ step = "links" => ShouldExpand(status, cur[2])
             /\ errors' = IF status # 200 THEN Append(errors, page) ELSE errors
             /\ results' = Append(results, page)
             /\ callbacks' = called
             /\ autosaves' = IF step = "links" /\ AutosaveDue(Len(results'))
                             THEN Append(autosaves, [after |-> Len(requests),
                                                     rows |-> Len(results')])
                             ELSE autosaves
    /\ requests' = Completed("response")
    /\ pc' = "Aborted"
    /\ UNCHANGED <<tasks, calling, config, visited, to_visit, robot_parser, last_request, cur,
                   loads, pushed, exported>>

\* The while condition fails: the session is closed and crawl() returns.
Finish ==
    /\ pc = "Loop"
    /\ ~LoopCond
    /\ session' = "closed"
    /\ pc' = "Done"
    /\ UNCHANGED <<tasks, calls, config, results, errors, visited, to_visit, robot_parser,
                   last_request, cur, now, loads, observed>>

\* export() that empties self.errors once the error log is written.
export_ClearsErrors ==
    /\ pc \in {"Loop", "Done"}
    /\ exported' = [written |-> TRUE, rows |-> results,
                    has_log |-> exported.has_log \/ errors # << >>,
                    log |-> IF errors # << >> THEN errors ELSE exported.log]
    /\ errors' = << >>
    /\ UNCHANGED <<tasks, calling, config, results, visited, to_visit, robot_parser,
                   last_request, pc, cur, now, loads, requests, callbacks,
                   autosaves, pushed>>

\* export(basename), called between two loop iterations or after crawl()
\* returned: the CSV, spreadsheet and JSON files take the rows of results;
\* the error log is written only when errors is not empty.
export ==
    /\ pc \in {"Loop", "Done"}
    /\ exported' = [written |-> TRUE, rows |-> results,
                    has_log |-> exported.has_log \/ errors # << >>,
                    log |-> IF errors # << >> THEN errors ELSE exported.log]
    /\ UNCHANGED <<tasks, calling, config, results, errors, visited, to_visit, robot_parser,
                   last_request, pc, cur, now, loads, requests, callbacks,
                   autosaves, pushed>>

Next ==
    \/ crawl
    \/ load_robots
    \/ load_sitemap
    \/ initialize
    \/ Dequeue
    \/ rate_limit_wait
    \/ FetchRaise
    \/ FetchResponse
    \/ PageProcessingRaises
    \/ Finish

Spec == Init /\ [][Next]_vars

\* The event loop runs the crawl coroutine whenever it can take a step: the
\* sleep ends, the GET answers or times out (timeout=15).
FairSpec == Init /\ [][Next]_vars /\ WF_vars(Next)

\* crawl() may be called again once it has returned.
NextReentry == Next \/ crawl_again
InitReentry ==
    /\ Init
    /\ max_depth = MaxDepthBound
    /\ max_pages = MaxPagesBound
    /\ ~include_subdomains
    /\ progress_callback
    /\ now = MaxStartTime
SpecReentry == InitReentry /\ [][NextReentry]_vars

\* Two crawl() coroutines of one crawler run on the same event loop, as in
\* asyncio.gather(c.crawl(), c.crawl()).
\* Both run initialize(), so the frontier holds the base URL and the
\* sitemap URLs twice; with max_pages = 1 the loops end at the first answer.
NextWorkers ==
    \/ crawl
    \/ load_robots
    \/ load_sitemap
    \/ initialize
    \/ Dequeue
    \/ rate_limit_wait_begin
    \/ rate_limit_wait_end
    \/ FetchRaise
    \/ FetchResponse
    \/ PageProcessingRaises
    \/ Finish
    \/ switch
InitWorkers ==
    /\ Init
    /\ max_depth = MaxDepthBound
    /\ max_pages = 1
    /\ ~include_subdomains
    /\ progress_callback
    /\ now = MaxStartTime
SpecWorkers == InitWorkers /\ [][NextWorkers]_vars

\* A crawl during which export() is called from outside.
NextExport == Next \/ export
InitExport == Init /\ progress_callback /\ now = MaxStartTime
SpecExport == InitExport /\ [][NextExport]_vars

TypeOK ==
    /\ pc \in {"Idle", "LoadRobots", "LoadSitemap", "PutBase", "Loop", "Pace",
               "Sleep", "Fetch", "Done", "Aborted"}
    /\ visited \subseteq URLs
    /\ now >= last_request

\* ------------------------------------------------------------ properties
Range(s) == {s[i] : i \in DOMAIN s}
UrlsOf(s) == {s[i].url : i \in DOMAIN s}
PairwiseDistinctUrls(s) ==
    \A i, j \in DOMAIN s : i # j => s[i].url # s[j].url

\* A loop-iteration boundary of crawl(), or crawl() has returned.
AtBoundary == pc \in {"Loop", "Done"}

\* The policy read off the configuration and the loaded rule set.
RobotsDisallows(u) ==
    /\ robot_parser.parsed
    /\ \E r \in robot_parser.disallow :
         IsPrefix(r, IF url_path(u) = << >> THEN <<"/">> ELSE url_path(u))
OutOfScope(u) ==
    /\ ~include_subdomains
    /\ hostname(u) \notin {NoHost, hostname(base_url)}

\* C1: at every loop-iteration boundary and after crawl() returns, errors is
\* exactly the records of results with status != 200: errors is contained in
\* results, every non-200 record of results is in errors, and errors holds
\* no 200 record.
C1_ErrorsAreFilteredResults ==
    AtBoundary =>
        /\ Range(errors) \subseteq Range(results)
        /\ \A r \in Range(results) : r.status # 200 => r \in Range(errors)
        /\ \A e \in Range(errors) : e.status # 200

\* C2: an iteration whose GET raises appends one status-0 record carrying the
\* error message to both results and errors, pushes nothing onto the
\* frontier and returns to the head of the loop.
C2_TransportFailureRecorded ==
    [][(pc = "Fetch" /\ requests'[Len(requests')].outcome = "raise") =>
          /\ results' = Append(results, PageResult(cur[1], 0, "exc"))
          /\ errors' = Append(errors, PageResult(cur[1], 0, "exc"))
          /\ to_visit' = to_visit
          /\ pc' = "Loop"]_vars

\* C3: no URL is fetched more than once: the GETs issued have pairwise
\* distinct URLs, every mark in visited stands for exactly one GET, and the
\* URLs of the records in results are pairwise distinct.
C3_NoUrlFetchedTwice ==
    /\ PairwiseDistinctUrls(requests)
    /\ PairwiseDistinctUrls(results)
    /\ Cardinality(visited) = Len(requests) + (IF pc = "Pace" THEN 1 ELSE 0)

\* C3 witness: a URL was queued twice, the queue has been drained and the
\* URL was fetched.
C3_Witness ==
    /\ pc = "Done"
    /\ to_visit = << >>
    /\ \E i, j \in DOMAIN pushed :
         i < j /\ pushed[i][1] = pushed[j][1] /\ pushed[i][1] \in visited

\* C4: len(results) <= max_pages in every state, and no fetch attempt is
\* under way (pacing wait or GET) unless len(results) < max_pages held when
\* it was admitted.
C4_PageCap ==
    /\ Len(results) <= max_pages
    /\ pc \in {"Pace", "Fetch"} => Len(results) < max_pages

\* C4 witness: the loop stopped at the cap with entries still queued.
C4_Witness ==
    /\ pc = "Done"
    /\ max_pages > 0
    /\ Len(results) = max_pages
    /\ to_visit # << >>

\* C5: every GET issued was for an entry of depth <= max_depth.
C5_DepthBound ==
    \A i \in DOMAIN requests : requests[i].depth <= max_depth

\* C5 witness: an entry deeper than max_depth was queued and taken off the
\* queue by the loop.
C5_Witness ==
    /\ pc = "Done"
    /\ max_pages > 0
    /\ to_visit = << >>
    /\ \E i \in DOMAIN pushed : pushed[i][2] > max_depth

\* C6: once the robots rules are loaded, a URL they disallow, or a URL out
\* of host scope, is never marked visited, never requested and never
\* recorded in results or errors.
C6_PolicyDiscards ==
    \A u \in URLs :
        (RobotsDisallows(u) \/ OutOfScope(u)) =>
            /\ u \notin visited
            /\ u \notin UrlsOf(requests)
            /\ u \notin UrlsOf(results)
            /\ u \notin UrlsOf(errors)

\* C6 witness: a disallowed or out-of-scope URL was queued and taken off the
\* queue in a crawl that fetched something.
C6_Witness ==
    /\ pc = "Done"
    /\ to_visit = << >>
    /\ requests # << >>
    /\ \E i \in DOMAIN pushed :
         RobotsDisallows(pushed[i][1]) \/ OutOfScope(pushed[i][1])

\* C7 as stated: with include_subdomains false, the URL of every PageRecord
\* has the base URL's hostname.
C7_SameHostOnly ==
    ~include_subdomains =>
        \A r \in Range(results) \cup Range(errors) :
            hostname(r.url) = hostname(base_url)

\* C7 amended: with include_subdomains false, no PageRecord and no GET has a
\* URL whose hostname is present and differs from the base URL's hostname;
\* a URL without a hostname passes the filter.
C7_NoForeignHost ==
    ~include_subdomains =>
        /\ \A r \in Range(results) \cup Range(errors) :
              hostname(r.url) \in {hostname(base_url), NoHost}
        /\ \A i \in DOMAIN requests :
              hostname(requests[i].url) \in {hostname(base_url), NoHost}

\* C7 witness: with include_subdomains false a URL on another host was
\* queued and taken off the queue in a crawl that recorded a page.
C7_Witness ==
    /\ ~include_subdomains
    /\ pc = "Done"
    /\ to_visit = << >>
    /\ results # << >>
    /\ \E i \in DOMAIN pushed : hostname(pushed[i][1]) = "b.com"

\* C8: with a progress callback registered, it has been called once per
\* completed fetch attempt, the i-th call with (i, max_pages).
C8_ProgressAfterEveryAttempt ==
    (progress_callback /\ AtBoundary) =>
        /\ Len(callbacks) = Len(requests)
        /\ \A i \in DOMAIN callbacks : callbacks[i] = <<i, max_pages>>

\* C9: the autosaves written are exactly those after the k-th completed
\* fetch for every positive multiple k of autosave_interval, each holding
\* k records.
C9_AutosaveEveryInterval ==
    AtBoundary =>
        LET due == {k \in 1..Len(requests) : k % autosave_interval = 0}
        IN  /\ Len(autosaves) = Cardinality(due)
            /\ {autosaves[i].after : i \in DOMAIN autosaves} = due
            /\ \A i \in DOMAIN autosaves : autosaves[i].rows = autosaves[i].after

\* C10: every GET starts at least rate_limit after the start of the GET
\* before it, and the first at least rate_limit after the initial
\* last_request (0), on the event loop's clock.
C10_Pacing ==
    \A i \in DOMAIN requests :
        requests[i].start >=
            (IF i = 1 THEN 0 ELSE requests[i - 1].start) + rate_limit

\* C10 witness: two consecutive GETs exactly rate_limit apart.
C10_Witness ==
    /\ rate_limit > 0
    /\ Len(requests) >= 2
    /\ requests[2].start = requests[1].start + rate_limit

\* C11: initialize() completes for every outcome of the two loads; a failed
\* robots load leaves an allow-all policy, a failed sitemap load leaves no
\* sitemap seed in the queue, and the base URL is queued at depth 0 after
\* the seeds (every later push is a discovered link of depth >= 1).
C11_InitializeFallbacks ==
    /\ (pc \in {"LoadSitemap", "PutBase"} /\ loads.robots = "failed") =>
           \A u \in URLs : can_fetch(u)
    /\ (pc = "PutBase" /\ loads.sitemap = "failed") => to_visit = << >>
    /\ pc \notin {"Idle", "LoadRobots", "LoadSitemap", "PutBase"} =>
           \E k \in DOMAIN pushed :
               /\ pushed[k] = <<base_url, 0>>
               /\ \A i \in 1..k : pushed[i][2] = 0
               /\ \A i \in (k + 1)..Len(pushed) : pushed[i][2] >= 1

\* The crawl state proper.
crawl_state == <<visited, results, errors, to_visit, last_request>>

\* C12: a step that writes an export leaves visited, results, errors, the
\* frontier and last_request as they were; a loop step that writes an
\* autosave changes them exactly as the loop body does (one record appended
\* to results, visited and last_request untouched) and the snapshot has the
\* rows of results after the step.
C12_SavesLeaveCrawlState ==
    [][/\ exported' # exported => UNCHANGED crawl_state
       /\ autosaves' # autosaves =>
            /\ SubSeq(results', 1, Len(results)) = results
            /\ Len(results') = Len(results) + 1
            /\ SubSeq(errors', 1, Len(errors)) = errors
            /\ visited' = visited
            /\ last_request' = last_request
            /\ autosaves'[Len(autosaves')].rows = Len(results')]_vars

\* C12 witness: an export between two iterations of a crawl that has both
\* written an autosave and recorded an error.
C12_Witness ==
    /\ pc = "Loop"
    /\ autosaves # << >>
    /\ exported.written
    /\ exported.has_log
    /\ exported.rows = results
    /\ to_visit # << >>

\* C13: the crawl loop stops only by its while condition: whenever crawl()
\* is over, it returned with the session closed and the frontier is empty
\* or len(results) has reached max_pages.
C13_LoopNeverAborts ==
    pc \in {"Done", "Aborted"} =>
        /\ pc = "Done"
        /\ to_visit = << >> \/ Len(results) >= max_pages

\* Idle, Initializing, Running, Finished.
Lifecycle ==
    CASE pc = "Idle" -> 0
      [] pc \in {"LoadRobots", "LoadSitemap", "PutBase"} -> 1
      [] pc \in {"Loop", "Pace", "Fetch"} -> 2
      [] OTHER -> 3

\* C14: the lifecycle only moves forward, and from the moment crawl() has
\* returned no step issues a GET or changes visited, results, errors or the
\* frontier.
C14_SingleUse ==
    [][/\ Lifecycle' >= Lifecycle
       /\ (pc = "Done" \/ calls > 1) =>
            UNCHANGED <<visited, results, errors, to_visit, requests>>]_vars

\* C15: the frontier is FIFO and the traversal breadth-first: the queued
\* entries are in non-decreasing depth order and none is shallower than the
\* entry dequeued last, so the depths of successively dequeued entries never
\* decrease.
C15_BreadthFirst ==
    /\ \A i, j \in DOMAIN to_visit :
           i < j => to_visit[i][2] <= to_visit[j][2]
    /\ to_visit # << >> => cur[2] <= to_visit[1][2]

\* C15 witness: a depth-1 entry was fetched after two depth-0 entries.
C15_Witness ==
    \E i \in DOMAIN requests :
        /\ i >= 3
        /\ requests[i].depth = 1
        /\ requests[1].depth = 0
        /\ requests[2].depth = 0

\* C16: a step of the crawl loop that puts entries on the frontier is the
\* completion of a GET that answered 200 for an entry of depth < max_depth,
\* and every entry it puts has that depth + 1; so a non-200 answer and a
\* transport failure put nothing.
C16_PushOnlyAfter200 ==
    [][(pc \in {"Loop", "Pace", "Fetch"} /\ pushed' # pushed) =>
          /\ pc = "Fetch"
          /\ requests'[Len(requests')].outcome = "response"
          /\ Len(results') = Len(results) + 1
          /\ results'[Len(results')].url = cur[1]
          /\ results'[Len(results')].status = 200
          /\ cur[2] < max_depth
          /\ SubSeq(pushed', 1, Len(pushed)) = pushed
          /\ \A i \in (Len(pushed) + 1)..Len(pushed') :
                 pushed'[i][2] = cur[2] + 1]_vars

\* C16 witness: a crawl with a discovered link queued, a non-200 answer and
\* a transport failure.
C16_Witness ==
    /\ \E i \in DOMAIN pushed : pushed[i][2] >= 1
    /\ \E r \in Range(results) : r.status = 404
    /\ \E e \in Range(errors) : e.status = 0

C18_OneRecordPerAttempt ==
    AtBoundary =>
        /\ UrlsOf(results) = visited
        /\ Len(requests) = Len(results)
        /\ Len(requests) <= max_pages

\* C19: no put of the crawl loop carries a URL that is in visited at the
\* time of the put; the frontier grows by exactly the entries put.
C19_NoVisitedUrlEnqueued ==
    [][(pc \in {"Loop", "Pace", "Fetch"} /\ pushed' # pushed) =>
          /\ Len(pushed') > Len(pushed)
          /\ \A i \in (Len(pushed) + 1)..Len(pushed') :
                 /\ pushed'[i][1] \notin visited
                 /\ pushed'[i][1] \notin visited'
          /\ to_visit' = to_visit \o SubSeq(pushed', Len(pushed) + 1, Len(pushed'))]_vars

\* C19 witness: between two iterations, after at least one fetch, the
\* frontier holds the same discovered, not yet visited URL twice.
C19_Witness ==
    /\ pc = "Loop"
    /\ visited # {}
    /\ \E i, j \in DOMAIN to_visit :
           /\ i < j
           /\ to_visit[i] = to_visit[j]
           /\ to_visit[i][2] >= 1
           /\ to_visit[i][1] \notin visited

\* A coroutine between its visited mark and the end of its GET.
InFlight(p) == p \in {"Pace", "Sleep", "Fetch"}

\* C20: with two crawl loops interleaved on one visited set and one
\* frontier, no URL is fetched by both: whenever a coroutine is suspended
\* after its visited check the mark is already in visited, the two
\* coroutines never handle the same URL at once, and the GETs issued by
\* both have pairwise distinct URLs.
C20_NoUrlFetchedByBoth ==
    /\ InFlight(pc) => cur[1] \in visited
    /\ InFlight(peer.pc) => peer.cur[1] \in visited
    /\ (InFlight(pc) /\ InFlight(peer.pc)) => cur[1] # peer.cur[1]
    /\ \A i, j \in DOMAIN requests :
           i # j => requests[i].url # requests[j].url

\* C20 witness: while one coroutine waits for the answer to its GET of the
\* base URL, the other has taken the second queue entry of the base URL and
\* dropped it.
C20_Witness ==
    /\ peer.pc = "Fetch"
    /\ peer.cur[1] = base_url
    /\ pc = "Loop"
    /\ cur = <<base_url, 0>>
    /\ \A i \in DOMAIN to_visit : to_visit[i][1] # base_url
    /\ \E i, j \in DOMAIN pushed :
           i < j /\ pushed[i][1] = base_url /\ pushed[j][1] = base_url
    /\ Len(requests) = 1

====
